---- MODULE Spec2Model ----
(***************************************************************************)
(* Model of pkg/github/pullrequest_implementation.go:                      *)
(* defaultPRImplementation.loadRepository, getMergeMode, getCommits and    *)
(* findPatchTree.  The hosting platform is the environment: every call to  *)
(* it is a step whose outcome (success, error, empty payload) is chosen    *)
(* nondeterministically; the commit graph it serves is fixed in Init.      *)
(* Tree hashes are the integers 1..NumTrees; the SHA of the i-th parent of *)
(* the merge commit is i (1-based), the Go loop index pn is 0-based.       *)
(***************************************************************************)
EXTENDS Integers, Sequences, FiniteSets, TLC

MaxCommits == 3
MaxParents == 3
NumTrees == 2

Trees == 1..NumTrees

SeqsUpTo(S, n) == UNION {[1..k -> S] : k \in 0..n}

\* A *Commit as far as the code reads it in the PR commit list.
CommitRecs == [TreeSHA : Trees]

CommitLists == SeqsUpTo(CommitRecs, MaxCommits)

Nil == "nil"

MERGE == "merge"

SQUASH == "squash"

REBASE == "rebase"

\* error values: msg "nil" is Go's nil error, arg carries the %d of the message
Err(m, a) == [msg |-> m, arg |-> a]

NoErr == Err("nil", 0)

NoCommit == [present |-> FALSE, TreeSHA |-> 0, Parents |-> <<>>]

FetchOutcomes == {"ok", "err", "empty"}

RepoOutcomes == {"ok", "err"}

Call(c, a, o) == [call |-> c, arg |-> a, outcome |-> o]

VARIABLES
  repository,   \* pr.Repository: Nil or "repo"
  mergeTree,    \* platform: tree hash of the commit pr.MergeCommitSHA names
  parentTrees,  \* platform: tree hash of each parent of that commit, in recorded order
  op,           \* function being executed
  pc,           \* position in it
  commits,      \* the PR commit list (argument of getMergeMode, local of findPatchTree)
  mergeCommit,  \* local mergeCommit
  prSHA,        \* local prSHA of findPatchTree
  pn,           \* loop index of findPatchTree
  mode,         \* returned mode
  parentNr,     \* returned parentNr
  err,          \* returned err
  apiCalls      \* calls made to the platform by the current call, in order

vars == <<repository, mergeTree, parentTrees, op, pc, commits, mergeCommit,
          prSHA, pn, mode, parentNr, err, apiCalls>>

world == <<mergeTree, parentTrees>>

\* the merge commit as the platform serves it
PlatformMergeCommit ==
  [present |-> TRUE, TreeSHA |-> mergeTree,
   Parents |-> [i \in 1..Len(parentTrees) |-> i]]

Init ==
  /\ repository = Nil
  /\ mergeTree \in Trees
  /\ parentTrees \in SeqsUpTo(Trees, MaxParents)
  /\ op = "none"
  /\ pc = "idle"
  /\ commits = <<>>
  /\ mergeCommit = NoCommit
  /\ prSHA = 0
  /\ pn = 0
  /\ mode = ""
  /\ parentNr = 0
  /\ err = NoErr
  /\ apiCalls = <<>>

----
\* loadRepository: pr.Repository after Repositories.Get returned outcome o
loadRepository(repo, o) ==
  IF o = "err" THEN repo ELSE "repo"

\* PullRequest.GetRepository: resolve the repository on first use
GetRepository(repo, o) ==
  IF repo = Nil THEN loadRepository(repo, o) ELSE repo

GetRepositoryCalls(repo, o) ==
  IF repo = Nil THEN <<Call("Repositories.Get", 0, o)>> ELSE <<>>

\* the guard of line 40 dropped
repositoryMissing_Never(r) == FALSE

\* getMergeMode line 40: the repository guard
repositoryMissing(r) == r = Nil

\* the tree of the first commit of the PR taken instead of the last
prTree_First(cs) == cs[1].TreeSHA

\* getMergeMode line 81: prTree
prTree(cs) == cs[Len(cs)].TreeSHA

\* the single-commit test made before the parent-count test
classify_SingleCommitFirst(mc, cs) ==
  IF Len(cs) = 1
    THEN [mode |-> SQUASH, err |-> NoErr, panic |-> FALSE]
  ELSE IF Len(mc.Parents) > 1
    THEN [mode |-> MERGE, err |-> NoErr, panic |-> FALSE]
  ELSE IF Len(cs) = 0
    THEN [mode |-> "", err |-> NoErr, panic |-> TRUE]
  ELSE IF mc.TreeSHA = prTree(cs)
    THEN [mode |-> REBASE, err |-> NoErr, panic |-> FALSE]
  ELSE [mode |-> SQUASH, err |-> NoErr, panic |-> FALSE]

\* the single-commit special case left out
classify_NoSingleCommitCase(mc, cs) ==
  IF Len(mc.Parents) > 1
    THEN [mode |-> MERGE, err |-> NoErr, panic |-> FALSE]
  ELSE IF Len(cs) = 0
    THEN [mode |-> "", err |-> NoErr, panic |-> TRUE]
  ELSE IF mc.TreeSHA = prTree(cs)
    THEN [mode |-> REBASE, err |-> NoErr, panic |-> FALSE]
  ELSE [mode |-> SQUASH, err |-> NoErr, panic |-> FALSE]

\* getMergeMode lines 53-94, on a fetched merge commit
classify(mc, cs) ==
  IF Len(mc.Parents) > 1
    THEN [mode |-> MERGE, err |-> NoErr, panic |-> FALSE]
  ELSE IF Len(cs) = 1
    THEN [mode |-> SQUASH, err |-> NoErr, panic |-> FALSE]
  ELSE IF Len(cs) = 0
    \* commits[len(commits)-1] with len 0: index out of range, runtime panic
    THEN [mode |-> "", err |-> NoErr, panic |-> TRUE]
  ELSE IF mc.TreeSHA = prTree(cs)
    THEN [mode |-> REBASE, err |-> NoErr, panic |-> FALSE]
  ELSE [mode |-> SQUASH, err |-> NoErr, panic |-> FALSE]

\* getCommits: result of PullRequests.ListCommits mapped through NewCommit
getCommits(o, commitList) ==
  IF o = "err"
    THEN [list |-> <<>>, err |-> Err("querying GitHub for commits in PR", 0)]
    ELSE [list |-> commitList, err |-> NoErr]

\* the empty-list test of line 130 dropped
commitListEmpty_Never(cs) == FALSE

\* findPatchTree line 130
commitListEmpty(cs) == Len(cs) = 0

\* the target tree taken from the first commit of the PR
lastCommitTree_First(cs) == cs[1].TreeSHA

\* findPatchTree line 152
lastCommitTree(cs) == cs[Len(cs)].TreeSHA

\* a failed or empty parent fetch skipped instead of returned
scanParent_SkipFailed(n, f, t, target) ==
  IF f \in {"err", "empty"}
    THEN [pc |-> "fpt_scan", parentNr |-> 0, pn |-> n + 1, err |-> NoErr]
  ELSE IF t = target
    THEN [pc |-> "done", parentNr |-> n, pn |-> n, err |-> NoErr]
  ELSE [pc |-> "fpt_scan", parentNr |-> 0, pn |-> n + 1, err |-> NoErr]

\* no return on a match: the scan goes on to the remaining parents
scanParent_NoShortCircuit(n, f, t, target) ==
  IF f = "err"
    THEN [pc |-> "done", parentNr |-> 0, pn |-> n,
          err |-> Err("querying GitHub for parent commit", n + 1)]
  ELSE IF f = "empty"
    THEN [pc |-> "done", parentNr |-> 0, pn |-> n,
          err |-> Err("commit returned empty when querying sha", n + 1)]
  ELSE [pc |-> "fpt_scan", parentNr |-> IF t = target THEN n ELSE 0,
        pn |-> n + 1, err |-> NoErr]

\* findPatchTree lines 157-171: one iteration of the parent loop, where f is
\* the outcome of fetching parent n and t the tree hash the platform has for it
scanParent(n, f, t, target) ==
  IF f = "err"
    THEN [pc |-> "done", parentNr |-> 0, pn |-> n,
          err |-> Err("querying GitHub for parent commit", n + 1)]
  ELSE IF f = "empty"
    THEN [pc |-> "done", parentNr |-> 0, pn |-> n,
          err |-> Err("commit returned empty when querying sha", n + 1)]
  ELSE IF t = target
    THEN [pc |-> "done", parentNr |-> n, pn |-> n, err |-> NoErr]
  ELSE [pc |-> "fpt_scan", parentNr |-> 0, pn |-> n + 1, err |-> NoErr]

\* index 0 returned with a nil error when nothing matched
patchTreeNotFound_DefaultZero(mc) ==
  [parentNr |-> 0, err |-> NoErr]

\* findPatchTree lines 174-177
patchTreeNotFound(mc) ==
  [parentNr |-> 0,
   err |-> Err("unable to find patch tree of merge commit among parents",
               Len(mc.Parents))]

----
ResetLocals ==
  /\ commits' = <<>>
  /\ mergeCommit' = NoCommit
  /\ prSHA' = 0
  /\ pn' = 0
  /\ mode' = ""
  /\ parentNr' = 0
  /\ err' = NoErr

\* a caller runs loadRepository
LoadRepository ==
  /\ pc = "idle"
  /\ \E o \in RepoOutcomes :
       /\ repository' = loadRepository(repository, o)
       /\ apiCalls' = <<Call("Repositories.Get", 0, o)>>
  /\ op' = "loadRepository"
  /\ pc' = "done"
  /\ ResetLocals
  /\ UNCHANGED world

\* a caller runs getMergeMode(ctx, pr, cs)
GetMergeModeCall ==
  /\ pc = "idle"
  /\ \E cs \in CommitLists : commits' = cs
  /\ op' = "getMergeMode"
  /\ pc' = "gmm_repo"
  /\ mergeCommit' = NoCommit
  /\ prSHA' = 0
  /\ pn' = 0
  /\ mode' = ""
  /\ parentNr' = 0
  /\ err' = NoErr
  /\ apiCalls' = <<>>
  /\ UNCHANGED <<repository, world>>

\* getMergeMode lines 40-42
GetMergeModeCheckRepository ==
  /\ op = "getMergeMode"
  /\ pc = "gmm_repo"
  /\ \E o \in RepoOutcomes :
       LET r == GetRepository(repository, o) IN
         /\ repository' = r
         /\ apiCalls' = apiCalls \o GetRepositoryCalls(repository, o)
         /\ IF repositoryMissing(r)
              THEN /\ pc' = "done"
                   /\ mode' = ""
                   /\ err' = Err("unable to get merge mode, pull request has no repo", 0)
              ELSE /\ pc' = "gmm_fetch"
                   /\ UNCHANGED <<mode, err>>
  /\ UNCHANGED <<world, op, commits, mergeCommit, prSHA, pn, parentNr>>

\* getMergeMode lines 45-94
GetMergeModeFetchAndClassify ==
  /\ op = "getMergeMode"
  /\ pc = "gmm_fetch"
  /\ \E o \in RepoOutcomes, f \in FetchOutcomes :
       LET r == GetRepository(repository, o)
           calls == apiCalls \o GetRepositoryCalls(repository, o)
           res == classify(PlatformMergeCommit, commits)
       IN
         /\ repository' = r
         /\ IF r = Nil
              \* GetCommit invoked on a nil *Repository
              THEN /\ apiCalls' = Append(calls, Call("Repository.GetCommit", 0, "nilrepo"))
                   /\ pc' = "panic"
                   /\ UNCHANGED <<mode, err, mergeCommit>>
            ELSE /\ apiCalls' = Append(calls, Call("Repository.GetCommit", 0, f))
                 /\ IF f = "err"
                      THEN /\ pc' = "done"
                           /\ mode' = ""
                           /\ err' = Err("querying GitHub for merge commit", 0)
                           /\ UNCHANGED mergeCommit
                    ELSE IF f = "empty"
                      THEN /\ pc' = "done"
                           /\ mode' = ""
                           /\ err' = Err("commit returned empty when querying sha", 0)
                           /\ UNCHANGED mergeCommit
                    ELSE /\ mergeCommit' = PlatformMergeCommit
                         /\ pc' = IF res.panic THEN "panic" ELSE "done"
                         /\ mode' = res.mode
                         /\ err' = res.err
  /\ UNCHANGED <<world, op, commits, prSHA, pn, parentNr>>

\* a caller runs findPatchTree(ctx, pr)
FindPatchTreeCall ==
  /\ pc = "idle"
  /\ op' = "findPatchTree"
  /\ pc' = "fpt_commits"
  /\ ResetLocals
  /\ apiCalls' = <<>>
  /\ UNCHANGED <<repository, world>>

\* findPatchTree lines 126-132
FindPatchTreeGetCommits ==
  /\ op = "findPatchTree"
  /\ pc = "fpt_commits"
  /\ \E o \in RepoOutcomes, cs \in CommitLists :
       LET rc == getCommits(o, cs) IN
         /\ apiCalls' = Append(apiCalls, Call("PullRequests.ListCommits", 0, o))
         /\ commits' = rc.list
         /\ IF rc.err # NoErr
              THEN /\ pc' = "done"
                   /\ err' = Err("getting pr commits", 0)
            ELSE IF commitListEmpty(rc.list)
              THEN /\ pc' = "done"
                   /\ err' = Err("unable to find patch tree, commit list is empty", 0)
            ELSE /\ pc' = "fpt_merge"
                 /\ err' = NoErr
  /\ parentNr' = 0
  /\ UNCHANGED <<repository, world, op, mergeCommit, prSHA, pn, mode>>

\* findPatchTree lines 139-152
FindPatchTreeFetchMergeCommit ==
  /\ op = "findPatchTree"
  /\ pc = "fpt_merge"
  /\ \E f \in FetchOutcomes :
       /\ apiCalls' = Append(apiCalls, Call("Repositories.GetCommit", 0, f))
       /\ IF f = "err"
            THEN /\ pc' = "done"
                 /\ err' = Err("querying GitHub for merge commit", 0)
                 /\ UNCHANGED <<mergeCommit, prSHA>>
          ELSE IF f = "empty"
            THEN /\ pc' = "done"
                 /\ err' = Err("commit returned empty when querying sha", 0)
                 /\ UNCHANGED <<mergeCommit, prSHA>>
          ELSE IF Len(commits) = 0
            \* commits[len(commits)-1]: index out of range
            THEN /\ pc' = "panic"
                 /\ mergeCommit' = PlatformMergeCommit
                 /\ UNCHANGED <<err, prSHA>>
          ELSE /\ mergeCommit' = PlatformMergeCommit
               /\ prSHA' = lastCommitTree(commits)
               /\ pc' = "fpt_scan"
               /\ UNCHANGED err
  /\ pn' = 0
  /\ parentNr' = 0
  /\ UNCHANGED <<repository, world, op, commits, mode>>

\* findPatchTree lines 156-172: the loop body for parent pn
FindPatchTreeScanParent ==
  /\ op = "findPatchTree"
  /\ pc = "fpt_scan"
  /\ pn < Len(mergeCommit.Parents)
  /\ \E f \in FetchOutcomes :
       LET sha == mergeCommit.Parents[pn + 1]
           res == scanParent(pn, f, parentTrees[sha], prSHA)
       IN
         /\ apiCalls' = Append(apiCalls, Call("Repositories.GetCommit", sha, f))
         /\ pc' = res.pc
         /\ parentNr' = res.parentNr
         /\ pn' = res.pn
         /\ err' = res.err
  /\ UNCHANGED <<repository, world, op, commits, mergeCommit, prSHA, mode>>

\* findPatchTree lines 174-177: the loop ran out of parents
FindPatchTreeNotFound ==
  /\ op = "findPatchTree"
  /\ pc = "fpt_scan"
  /\ pn >= Len(mergeCommit.Parents)
  /\ pc' = "done"
  /\ parentNr' = patchTreeNotFound(mergeCommit).parentNr
  /\ err' = patchTreeNotFound(mergeCommit).err
  /\ UNCHANGED <<repository, world, op, commits, mergeCommit, prSHA, pn, mode, apiCalls>>

\* the call has returned; the caller goes on
Return ==
  /\ pc = "done"
  /\ pc' = "idle"
  /\ op' = "none"
  /\ ResetLocals
  /\ apiCalls' = <<>>
  /\ UNCHANGED <<repository, world>>

Next ==
  \/ LoadRepository
  \/ GetMergeModeCall
  \/ GetMergeModeCheckRepository
  \/ GetMergeModeFetchAndClassify
  \/ FindPatchTreeCall
  \/ FindPatchTreeGetCommits
  \/ FindPatchTreeFetchMergeCommit
  \/ FindPatchTreeScanParent
  \/ FindPatchTreeNotFound
  \/ Return

Spec == Init /\ [][Next]_vars

----
(* Properties *)

Returned == pc \in {"done", "panic"}

\* getMergeMode ended on a successfully fetched merge commit
Classified == op = "getMergeMode" /\ Returned /\ mergeCommit.present

\* the fetches of parents made so far by findPatchTree (arg is the parent's SHA)
IsParentFetch(c) == c.call = "Repositories.GetCommit" /\ c.arg >= 1

ParentFetches == SelectSeq(apiCalls, IsParentFetch)

\* the tree of the last commit of the PR commit list
TargetTree == commits[Len(commits)].TreeSHA

\* C1: with the repository present and a fetched merge commit of two or more
\* parents, getMergeMode returns MERGE and a nil error, whatever the merge
\* commit's tree and whatever the commit list (any length, any trees).
C1_MergeTakesPrecedence ==
  (Classified /\ Len(mergeCommit.Parents) >= 2)
    => (pc = "done" /\ mode = MERGE /\ err = NoErr)

\* C1 case: a one-commit PR whose tree equals the merge commit's, two parents
C1_Witness ==
  /\ Classified
  /\ pc = "done"
  /\ Len(mergeCommit.Parents) >= 2
  /\ Len(commits) = 1
  /\ mergeCommit.TreeSHA = TargetTree
  /\ mode = MERGE

\* C2: for a list of two or more commits and a fetched merge commit of at most
\* one parent, the result is REBASE exactly when the merge commit's tree is the
\* tree of the last commit of the list, and SQUASH otherwise.
C2_RebaseIffLastTreeMatches ==
  (Classified /\ Len(mergeCommit.Parents) <= 1 /\ Len(commits) >= 2)
    => /\ pc = "done"
       /\ err = NoErr
       /\ mode = IF mergeCommit.TreeSHA = TargetTree THEN REBASE ELSE SQUASH

\* C2 case: REBASE although the first commit's tree differs from the merge tree
C2_Witness ==
  /\ Classified
  /\ Len(mergeCommit.Parents) <= 1
  /\ Len(commits) >= 2
  /\ commits[1].TreeSHA # mergeCommit.TreeSHA
  /\ mode = REBASE

\* C3: for a list of exactly one commit and a fetched merge commit of at most
\* one parent the result is SQUASH, also when the two trees are equal.
C3_SingleCommitIsSquash ==
  (Classified /\ Len(mergeCommit.Parents) <= 1 /\ Len(commits) = 1)
    => (pc = "done" /\ mode = SQUASH /\ err = NoErr)

\* C3 case: one commit whose tree equals the merge commit's tree
C3_Witness ==
  /\ Classified
  /\ Len(mergeCommit.Parents) <= 1
  /\ Len(commits) = 1
  /\ mergeCommit.TreeSHA = TargetTree
  /\ mode = SQUASH

\* C4: when findPatchTree returns index i with a nil error, parent i has the
\* tree of the last PR commit and no parent of lower index has it.
C4_FirstMatchWins ==
  (op = "findPatchTree" /\ pc = "done" /\ err = NoErr)
    => /\ parentNr < Len(parentTrees)
       /\ parentTrees[parentNr + 1] = TargetTree
       /\ \A j \in 1..parentNr : parentTrees[j] # TargetTree

\* C4 case: two parents share the target tree, the lower one (not parent 0) is returned
C4_Witness ==
  /\ op = "findPatchTree"
  /\ pc = "done"
  /\ err = NoErr
  /\ parentNr = 1
  /\ Len(parentTrees) >= 3
  /\ parentTrees[3] = TargetTree
  /\ parentTrees[2] = TargetTree
  /\ commits[1].TreeSHA # TargetTree

\* every parent of the merge commit was fetched, each with success
AllParentsFetched ==
  /\ mergeCommit.present
  /\ Len(ParentFetches) = Len(parentTrees)
  /\ \A k \in 1..Len(ParentFetches) : ParentFetches[k].outcome = "ok"

\* C5: when every parent was fetched and none has the target tree (zero
\* parents included) findPatchTree returns a non-nil error that reports the
\* number of parents; index 0 with a nil error means parent 0 matches.
C5_NotFoundIsAnError ==
  (op = "findPatchTree" /\ pc = "done")
    => /\ (AllParentsFetched /\ \A j \in 1..Len(parentTrees) : parentTrees[j] # TargetTree)
            => /\ err # NoErr
               /\ err.msg = "unable to find patch tree of merge commit among parents"
               /\ err.arg = Len(parentTrees)
       /\ (err = NoErr /\ parentNr = 0)
            => (Len(parentTrees) >= 1 /\ parentTrees[1] = TargetTree)

\* C5 case: two or more parents, all fetched, none matching
C5_Witness ==
  /\ op = "findPatchTree"
  /\ pc = "done"
  /\ AllParentsFetched
  /\ Len(parentTrees) >= 2
  /\ \A j \in 1..Len(parentTrees) : parentTrees[j] # TargetTree
  /\ err.arg = Len(parentTrees)

\* C6: getMergeMode on an empty commit list returns an empty mode and a
\* non-nil error, and never panics, whatever the merge commit.
C6_EmptyListIsInvalidInput ==
  (op = "getMergeMode" /\ Len(commits) = 0)
    => /\ pc # "panic"
       /\ pc = "done" => (mode = "" /\ err # NoErr)

\* C7: a parent fetch that fails or comes back empty ends findPatchTree with a
\* non-nil error and index 0; it is the last call made, so no later parent is
\* fetched or compared.
C7_FailedParentFetchStopsScan ==
  op = "findPatchTree"
    => \A k \in 1..Len(apiCalls) :
         (IsParentFetch(apiCalls[k]) /\ apiCalls[k].outcome \in {"err", "empty"})
           => /\ k = Len(apiCalls)
              /\ pc = "done"
              /\ err # NoErr
              /\ parentNr = 0

\* C7 case: the fetch of a parent failed and a later parent has the target tree
C7_Witness ==
  /\ op = "findPatchTree"
  /\ pc = "done"
  /\ Len(ParentFetches) >= 1
  /\ ParentFetches[Len(ParentFetches)].outcome \in {"err", "empty"}
  /\ \E j \in (Len(ParentFetches) + 1)..Len(parentTrees) : parentTrees[j] = prSHA

\* a step of loadRepository whose fetch failed, on a PR without repository
FailedLoadStep ==
  /\ pc = "idle"
  /\ repository = Nil
  /\ op' = "loadRepository"
  /\ apiCalls'[1].outcome = "err"

\* getMergeMode found no repository on line 40
RepositoryAbsent ==
  /\ op = "getMergeMode"
  /\ Len(apiCalls) >= 1
  /\ apiCalls[1] = Call("Repositories.Get", 0, "err")

\* C8: a failed fetch in loadRepository leaves pr.Repository unset; getMergeMode
\* on a PR without repository returns an error and an empty mode without
\* fetching the merge commit; GetCommit is never called on a nil repository.
C8_MissingRepository ==
  /\ [][FailedLoadStep => repository' = Nil]_vars
  /\ [](RepositoryAbsent
          => /\ pc = "done"
             /\ repository = Nil
             /\ mode = ""
             /\ err # NoErr
             /\ Len(apiCalls) = 1
             /\ ~mergeCommit.present)
  /\ [](\A k \in 1..Len(apiCalls) :
          apiCalls[k].call = "Repository.GetCommit"
            => (apiCalls[k].outcome # "nilrepo" /\ repository # Nil))

\* C8 case: getMergeMode returned because the repository could not be resolved
C8_Witness ==
  /\ RepositoryAbsent
  /\ pc = "done"
  /\ err.msg = "unable to get merge mode, pull request has no repo"

\* C9: findPatchTree on an empty commit list, or on a failure to obtain the
\* list, ends with an error after the listing call alone: neither the merge
\* commit nor any parent is fetched.
C9_EmptyCommitListRejected ==
  (op = "findPatchTree" /\ Len(apiCalls) >= 1
     /\ (apiCalls[1].outcome = "err" \/ Len(commits) = 0))
    => /\ pc = "done"
       /\ Len(apiCalls) = 1
       /\ err # NoErr
       /\ parentNr = 0
       /\ apiCalls[1].outcome = "ok"
            => err.msg = "unable to find patch tree, commit list is empty"
       /\ apiCalls[1].outcome = "err" => err.msg = "getting pr commits"

\* C9 case: the listing succeeded with an empty list
C9_Witness ==
  /\ op = "findPatchTree"
  /\ pc = "done"
  /\ Len(apiCalls) = 1
  /\ apiCalls[1].outcome = "ok"
  /\ Len(commits) = 0
  /\ err.msg = "unable to find patch tree, commit list is empty"

\* C10: the parent fetches of a findPatchTree call are parents 0, 1, 2, ...
\* in order, each once; every fetch but the last succeeded without a match;
\* a call that returns index i has made exactly i+1 parent fetches.
C10_SequentialPrefixScan ==
  op = "findPatchTree"
    => /\ Len(ParentFetches) <= Len(parentTrees)
       /\ \A k \in 1..Len(ParentFetches) :
            /\ ParentFetches[k].arg = k
            /\ k < Len(ParentFetches)
                 => /\ ParentFetches[k].outcome = "ok"
                    /\ parentTrees[k] # prSHA
       /\ (pc = "done" /\ err = NoErr) => Len(ParentFetches) = parentNr + 1

\* C10 case: index 1 returned after two fetches while parent 2 was never fetched
C10_Witness ==
  /\ op = "findPatchTree"
  /\ pc = "done"
  /\ err = NoErr
  /\ parentNr = 1
  /\ Len(ParentFetches) = 2
  /\ Len(parentTrees) >= 3

====
